---- MODULE Spec2Model ----
(***************************************************************************)
(* Model of twitter_to_bluesky.py ("plain") and                            *)
(* twitter_to_bluesky_img_quote.py ("img_quote"): the dedup ledger kept in *)
(* a gist, the RSS fetcher, the post formatter, the publisher and main().  *)
(* Strings are sequences of one-character strings.                         *)
(***************************************************************************)
EXTENDS Integers, Sequences, FiniteSets, TLC

\* ---------------------------------------------------------------- bounds
MaxId == 2          \* tweet ids / permalinks are 1..MaxId
NumAccounts == 2    \* number of entries of TWITTER_USERNAMES that are modelled
MaxFeed == 2        \* longest freely chosen feed
MaxRuns == 2        \* scheduled runs in one behaviour
FmtSlack == 2       \* content lengths this far around the truncation points
MaxPad == 2         \* longest run of spaces inside a content
MaxFetchFeed == 3   \* longest feed given to get_recent_tweets_rss on its own
MaxLimit == 2       \* largest limit given to get_recent_tweets_rss on its own
MaxNodes == 3       \* top-level elements of a body given to the parser on its own
MaxKids == 2        \* elements inside one blockquote of such a body
MaxMedia == 5       \* media URLs of an item given to the publisher on its own

\* ------------------------------------------------------ program constants
TWEETS_PER_USER == 10
MAX_BSKY_CHARS == 300
reserved == 80
MaxImages == 4

Ids == 1..MaxId
NoId == 0           \* None / missing attribute of a feed entry

\* ---------------------------------------------------------------- strings
Ellipsis == "..."   \* the single character U+2026
EmDash == "--"      \* the single character U+2014
\* the 29 characters str.strip() removes (str.isspace); a character that
\* has no escape is written as its code point, one character each
Whitespace ==
    {" ", "\t", "\n", "\r", "\f", "U+000B", "U+001C", "U+001D", "U+001E", "U+001F",
     "U+0085", "U+00A0", "U+1680", "U+2000", "U+2001", "U+2002", "U+2003", "U+2004",
     "U+2005", "U+2006", "U+2007", "U+2008", "U+2009", "U+200A", "U+2028", "U+2029",
     "U+202F", "U+205F", "U+3000"}

Rep(c, n) == [i \in 1..n |-> c]

LowerCase == <<"a", "b", "c", "d", "e", "f", "g", "h", "i", "j", "k", "l", "m",
               "n", "o", "p", "q", "r", "s", "t", "u", "v", "w", "x", "y", "z">>
UpperCase == <<"A", "B", "C", "D", "E", "F", "G", "H", "I", "J", "K", "L", "M",
               "N", "O", "P", "Q", "R", "S", "T", "U", "V", "W", "X", "Y", "Z">>

\* str.lower() of one character
Lower(c) ==
    IF \E i \in 1..26 : UpperCase[i] = c
    THEN LowerCase[CHOOSE i \in 1..26 : UpperCase[i] = c]
    ELSE c

LowerStr(s) == [i \in 1..Len(s) |-> Lower(s[i])]

RECURSIVE LStrip(_)
LStrip(s) == IF s # <<>> /\ Head(s) \in Whitespace THEN LStrip(Tail(s)) ELSE s

RECURSIVE RStrip(_)
RStrip(s) ==
    IF s # <<>> /\ s[Len(s)] \in Whitespace
    THEN RStrip(SubSeq(s, 1, Len(s) - 1))
    ELSE s

Strip(s) == RStrip(LStrip(s))

StartsWith(s, p) == Len(s) >= Len(p) /\ SubSeq(s, 1, Len(p)) = p

\* s[:n] for n >= 0
Prefix(s, n) == SubSeq(s, 1, IF n < Len(s) THEN n ELSE Len(s))

RECURSIVE Join(_, _)
Join(sep, parts) ==
    IF parts = <<>> THEN <<>>
    ELSE IF Len(parts) = 1 THEN parts[1]
    ELSE parts[1] \o sep \o Join(sep, Tail(parts))

\* sorted(list(S)) for a set of ids
RECURSIVE SortedList(_)
SortedList(S) ==
    IF S = {} THEN <<>>
    ELSE LET m == CHOOSE x \in S : \A y \in S : x <= y
         IN <<m>> \o SortedList(S \ {m})

\* set(list)
ToSet(l) == {l[i] : i \in 1..Len(l)}

Count(l, x) == Cardinality({i \in 1..Len(l) : l[i] = x})

\* ------------------------------------------------------------ Ledger Store
\* The gist API answer, as far as load_state looks at it.
GistResponses(doc) ==
    [status : {"ok", "error", "non2xx"},
     body : {"object"},
     files : {"map"},
     file : {"content"},
     content : {"tweet_ids"},
     tweet_ids : {doc}]
    \cup
    [status : {"ok"},
     body : {"not_json", "array", "object"},
     files : {"missing", "null", "map"},
     file : {"missing", "no_content", "content"},
     content : {"not_json", "array", "no_tweet_ids", "tweet_ids"},
     tweet_ids : {doc}]

Returned(ids) == [raised |-> FALSE, tweet_ids |-> ids]
Raised == [raised |-> TRUE, tweet_ids |-> {}]

load_state(e, resp) ==
    IF ~e.GIST_ID \/ ~e.GIST_TOKEN THEN Returned({})
    ELSE IF resp.status # "ok" THEN Returned({})
    ELSE IF resp.body = "not_json" THEN Raised
    ELSE IF resp.body # "object" THEN Raised
    ELSE IF resp.files = "null" THEN Raised
    ELSE IF resp.files = "missing" THEN Returned({})
    ELSE IF resp.file # "content" THEN Returned({})
    ELSE IF resp.content # "tweet_ids" THEN Returned({})
    ELSE Returned(ToSet(resp.tweet_ids))

\* The gist content after save_state; patch is the outcome of the PATCH call.
save_state(e, ids, doc, patch) ==
    IF ~e.GIST_ID \/ ~e.GIST_TOKEN THEN doc
    ELSE IF patch = "ok" THEN SortedList(ids)
    ELSE doc

\* ------------------------------------------------------ Feed Entry Parser
\* Optional strings (str | None).
None == [some |-> FALSE, val |-> <<>>]
Some(s) == [some |-> TRUE, val |-> s]
Truthy(o) == o.some /\ o.val # <<>>

\* Body HTML: a sequence of top-level elements [tag, text, src, kids]; the
\* kids of a blockquote are leaf elements [tag, text, src].  src is a media
\* URL number, 0 when the img has no src attribute.
Leaf(tag, text, src) == [tag |-> tag, text |-> text, src |-> src]
Node(tag, text, src, kids) == [tag |-> tag, text |-> text, src |-> src, kids |-> kids]
P(text) == Node("p", text, 0, <<>>)
Img(src) == Node("img", <<>>, src, <<>>)
Blockquote(kids) == Node("blockquote", <<>>, 0, kids)

\* the character class [A-Za-z0-9_] of line 215
HandleChars ==
    {LowerCase[i] : i \in 1..26} \cup {UpperCase[i] : i \in 1..26}
    \cup {"0", "1", "2", "3", "4", "5", "6", "7", "8", "9", "_"}

looks_like_retweet_case_sensitive(title) ==
    LET t == Strip(title)
    IN StartsWith(t, <<"r", "t", " ", "@">>) \/ StartsWith(t, <<"r", "t", " ">>)

looks_like_retweet(title) ==
    LET t == Strip(title)
    IN StartsWith(LowerStr(t), <<"r", "t", " ", "@">>) \/ StartsWith(LowerStr(t), <<"r", "t", " ">>)

\* re.search(r'@([A-Za-z0-9_]+)', s): group 1 of the leftmost match, or None
RECURSIVE HandleRun(_)
HandleRun(s) ==
    IF s # <<>> /\ Head(s) \in HandleChars THEN <<Head(s)>> \o HandleRun(Tail(s)) ELSE <<>>

RECURSIVE SearchHandle(_)
SearchHandle(s) ==
    IF s = <<>> THEN None
    ELSE IF Head(s) = "@" /\ HandleRun(Tail(s)) # <<>> THEN Some(HandleRun(Tail(s)))
    ELSE SearchHandle(Tail(s))

GetText(el) == Strip(el.text)

IsP(el) == el.tag = "p"
IsB(el) == el.tag = "b"
IsBlockquote(el) == el.tag = "blockquote"

\* soup.find_all("p"): every paragraph in document order, with whether it
\* has a blockquote parent
RECURSIVE find_all_p(_)
find_all_p(html) ==
    IF html = <<>> THEN <<>>
    ELSE LET el == Head(html)
             inside == IF el.tag = "blockquote" THEN SelectSeq(el.kids, IsP) ELSE <<>>
             here == IF el.tag = "p"
                     THEN <<[text |-> el.text, in_blockquote |-> FALSE]>>
                     ELSE [i \in 1..Len(inside) |->
                             [text |-> inside[i].text, in_blockquote |-> TRUE]]
         IN here \o find_all_p(Tail(html))

no_parent_check(p) == FALSE

\* p.find_parent("blockquote") is not None
has_blockquote_parent(p) == p.in_blockquote

IsMainPara(p) == ~has_blockquote_parent(p) /\ GetText(p) # <<>>

Texts(l) == [i \in 1..Len(l) |-> GetText(l[i])]

parse_entry_text_and_quote(entry) ==
    LET title == entry.title
        html == entry.summary
    IN IF html = <<>>
       THEN [main_text |-> title, quote_author |-> None, quote_text |-> None]
       ELSE
       LET quotes == SelectSeq(html, IsBlockquote)
           main_paras == Texts(SelectSeq(find_all_p(html), IsMainPara))
           joined == Strip(Join(<<"\n">>, main_paras))
           main_text == IF joined = <<>> THEN title ELSE joined
           bs == IF quotes = <<>> THEN <<>> ELSE SelectSeq(quotes[1].kids, IsB)
           b_text == IF bs = <<>> THEN <<>> ELSE GetText(bs[1])
           m == SearchHandle(b_text)
           quote_author == IF bs = <<>> THEN None
                           ELSE IF m.some THEN m ELSE Some(b_text)
           qt == IF quotes = <<>> THEN <<>>
                 ELSE Strip(Join(<<" ">>, Texts(SelectSeq(quotes[1].kids, IsP))))
           quote_text == IF qt # <<>> THEN Some(qt) ELSE None
       IN [main_text |-> main_text, quote_author |-> quote_author, quote_text |-> quote_text]

\* re.findall(r'<img[^>]+src="([^"]+)"', html): the src of every img, in
\* document order, inside or outside a blockquote
RECURSIVE extract_media_urls(_)
extract_media_urls(html) ==
    IF html = <<>> THEN <<>>
    ELSE LET el == Head(html)
             here == IF el.tag = "img" /\ el.src # 0 THEN <<el.src>> ELSE <<>>
             below == IF "kids" \in DOMAIN el THEN extract_media_urls(el.kids) ELSE <<>>
         IN here \o below \o extract_media_urls(Tail(html))

\* The raw summary string of the plain variant: the markup as text.
Digit(n) == CASE n = 0 -> "0" [] n = 1 -> "1" [] n = 2 -> "2" [] n = 3 -> "3" [] n = 4 -> "4"
              [] n = 5 -> "5" [] n = 6 -> "6" [] n = 7 -> "7" [] n = 8 -> "8" [] OTHER -> "9"
MediaUrl(n) == <<"u", Digit(n)>>
TagName(tag) ==
    CASE tag = "p" -> <<"p">>
      [] tag = "b" -> <<"b">>
      [] tag = "img" -> <<"i", "m", "g">>
      [] OTHER -> <<"b", "l", "o", "c", "k", "q", "u", "o", "t", "e">>

RECURSIVE RawHtml(_)
RawHtml(html) ==
    IF html = <<>> THEN <<>>
    ELSE LET el == Head(html)
             inner == IF "kids" \in DOMAIN el /\ el.kids # <<>> THEN RawHtml(el.kids) ELSE el.text
             markup == IF el.tag = "img"
                       THEN <<"<", "i", "m", "g">>
                            \o (IF el.src # 0
                                THEN <<" ", "s", "r", "c", "=", "\"">> \o MediaUrl(el.src) \o <<"\"">>
                                ELSE <<>>)
                            \o <<">">>
                       ELSE <<"<">> \o TagName(el.tag) \o <<">">> \o inner
                            \o <<"<", "/">> \o TagName(el.tag) \o <<">">>
         IN markup \o RawHtml(Tail(html))

\* ---------------------------------------------------------- Source Fetcher
Entry(id, link, title, summary) == [id |-> id, link |-> link, title |-> title, summary |-> summary]

Tweet(id, content, url, username, media_urls, quote_author, quote_text) ==
    [id |-> id, content |-> content, url |-> url, username |-> username,
     media_urls |-> media_urls, quote_author |-> quote_author, quote_text |-> quote_text]

FetchReturned(tweets) == [raised |-> FALSE, tweets |-> tweets]
FetchRaised == [raised |-> TRUE, tweets |-> <<>>]

\* the loop over feed.entries; a missing entry.link raises AttributeError
RECURSIVE ScanEntries(_, _, _, _, _)
ScanEntries(variant, username, limit, entries, tweets) ==
    IF entries = <<>> THEN FetchReturned(tweets)
    ELSE
    LET entry == Head(entries)
        title == entry.title
        parsed == parse_entry_text_and_quote(entry)
        content == IF variant = "img_quote" THEN parsed.main_text
                   ELSE IF title # <<>> THEN title ELSE RawHtml(entry.summary)
    IN IF looks_like_retweet(title)
       THEN ScanEntries(variant, username, limit, Tail(entries), tweets)
       ELSE IF content = <<>>
       THEN ScanEntries(variant, username, limit, Tail(entries), tweets)
       ELSE IF entry.link = NoId
       THEN FetchRaised
       ELSE
       LET tweet_id == IF entry.id # NoId THEN entry.id ELSE entry.link
           tweet == IF variant = "img_quote"
                    THEN Tweet(tweet_id, content, entry.link, username,
                               extract_media_urls(entry.summary),
                               parsed.quote_author, parsed.quote_text)
                    ELSE Tweet(tweet_id, content, entry.link, username, <<>>, None, None)
           appended == Append(tweets, tweet)
       IN IF Len(appended) >= limit
          THEN FetchReturned(appended)
          ELSE ScanEntries(variant, username, limit, Tail(entries), appended)

get_recent_tweets_rss_raising(variant, username, limit, resp) ==
    IF resp.status # "ok" THEN FetchRaised
    ELSE ScanEntries(variant, username, limit, resp.entries, <<>>)

\* resp: [status, entries], the answer of the RSS mirror
get_recent_tweets_rss(variant, username, limit, resp) ==
    IF resp.status # "ok" THEN FetchReturned(<<>>)
    ELSE ScanEntries(variant, username, limit, resp.entries, <<>>)

\* ---------------------------------------------------------- Post Formatter
\* "@{username}:\n    \n" : the second line of the f-string holds four spaces
Attribution(username) == <<"@">> \o username \o <<":", "\n", " ", " ", " ", " ", "\n">>

QuoteBlock(quote_author, quote_text) ==
    <<"\n", "\n", EmDash, EmDash, "\n", "Q", "u", "o", "t", "e", "d", " ", "@">>
    \o quote_author \o <<":", "\n">> \o quote_text

base_text_img_quote(tweet) ==
    IF Truthy(tweet.quote_author) /\ Truthy(tweet.quote_text)
    THEN Attribution(tweet.username) \o tweet.content
         \o QuoteBlock(tweet.quote_author.val, tweet.quote_text.val)
    ELSE Attribution(tweet.username) \o tweet.content

format_bsky_post_img_quote(tweet) ==
    LET base_text == base_text_img_quote(tweet)
    IN IF Len(base_text) <= MAX_BSKY_CHARS THEN base_text
       ELSE RStrip(Prefix(base_text, MAX_BSKY_CHARS)) \o <<Ellipsis>>

format_bsky_post_plain(tweet) ==
    LET base_text == Attribution(tweet.username) \o tweet.content
        truncated_body == RStrip(Prefix(tweet.content, MAX_BSKY_CHARS - reserved))
        text == Attribution(tweet.username) \o truncated_body \o <<Ellipsis>>
    IN IF Len(base_text) <= MAX_BSKY_CHARS THEN base_text
       ELSE Prefix(text, MAX_BSKY_CHARS)

format_bsky_post(variant, tweet) ==
    IF variant = "img_quote" THEN format_bsky_post_img_quote(tweet)
    ELSE format_bsky_post_plain(tweet)

\* --------------------------------------------------------------- Publisher
AltText(username) ==
    <<"I", "m", "a", "g", "e", " ", "f", "r", "o", "m", " ", "t", "w", "e", "e", "t", " ",
      "b", "y", " ", "@">> \o username

SendPost(text) == [method |-> "send_post", text |-> text, images |-> <<>>, image_alts |-> <<>>]
SendImages(text, images, image_alts) ==
    [method |-> "send_images", text |-> text, images |-> images, image_alts |-> image_alts]

every_media_url(media_urls) == media_urls

\* media_urls[:4], the URLs whose download is attempted (line 345)
first_media_urls(media_urls) == Prefix(media_urls, MaxImages)

\* dl[i]: whether the download of the i-th media URL succeeds; dest: the
\* outcome of the destination call.  The result names the URLs requested,
\* the one destination call and whether the call raised.
post_to_bluesky(variant, tweet, text, dl, dest) ==
    LET media_urls == IF variant = "img_quote" THEN tweet.media_urls ELSE <<>>
        tried == first_media_urls(media_urls)
        got == {i \in 1..Len(tried) : dl[i]}
        images == [k \in 1..Cardinality(got) |->
                     tried[CHOOSE i \in got : Cardinality({j \in got : j < i}) = k - 1]]
        image_alts == [k \in 1..Len(images) |-> AltText(tweet.username)]
        call == IF media_urls = <<>> \/ images = <<>> THEN SendPost(text)
                ELSE SendImages(text, images, image_alts)
    IN [raised |-> dest # "ok", downloads |-> tried, call |-> call]

\* ------------------------------------------------------- Run Orchestrator
TWITTER_USERNAMES == [i \in 1..NumAccounts |-> <<"u", Digit(i)>>]

\* Environment of one run: whether each variable is set to a non-empty value.
Envs == [BSKY_HANDLE : BOOLEAN, BSKY_APP_PASSWORD : BOOLEAN,
         GIST_ID : BOOLEAN, GIST_TOKEN : BOOLEAN]

Hi == <<"h", "i">>
NormalEntry(i) == Entry(i, i, Hi, IF i = 1 THEN <<P(Hi), Img(1)>> ELSE <<P(Hi)>>)
RetweetEntry == Entry(1, 1, <<"R", "T", " ", "@", "b">>, <<P(Hi)>>)
EmptyEntry == Entry(1, 1, <<>>, <<>>)
NoLinkEntry == Entry(NoId, NoId, Hi, <<>>)
LinkOnlyEntry == Entry(NoId, MaxId, Hi, <<>>)
OrchEntries == {NormalEntry(i) : i \in Ids}
               \cup {RetweetEntry, EmptyEntry, NoLinkEntry, LinkOnlyEntry}

\* a feed with one entry more than main() asks for
LongFeed == [k \in 1..(TWEETS_PER_USER + 1) |-> NormalEntry(((k - 1) % MaxId) + 1)]

Feeds == UNION {[1..n -> OrchEntries] : n \in 0..MaxFeed} \cup {LongFeed}

FeedFailures == {"non2xx", "timeout", "connection_error"}

FeedResponses == [status : {"ok"}, entries : Feeds]
                 \cup [status : FeedFailures, entries : {<<>>}]

NoCall == [method |-> "none", text |-> <<>>, images |-> <<>>, image_alts |-> <<>>]
Op(op, id, call) == [op |-> op, id |-> id, call |-> call]

VARIABLES
    variant,          \* which of the two scripts runs
    run,              \* number of the scheduled run
    env,              \* environment of the run
    pc,               \* position in main()
    exc,              \* where the exception that ended the run was raised
    seen_ids,         \* the in-memory ledger
    acct,             \* index into TWITTER_USERNAMES
    tweets,           \* result of get_recent_tweets_rss for the account
    order,            \* reversed(tweets), as positions in tweets
    idx,              \* position in order of the item the loop is at
    new_posts_count,
    gist,             \* tweet_ids stored in the gist file
    loaded,           \* history: the ledger as load_state returned it
    effects,          \* history: kinds of side effect of this run
    saves,            \* history: save_state calls that reached the gist API or its guard
    lastOp,           \* history: what the last step of the item loop did
    lastAttempt,      \* history: position of the last publish attempt of the batch
    succeeded,        \* history: ids whose publish returned in this run
    failed,           \* history: ids whose publish raised in this run
    everPublished,    \* history: ids published to the destination in any run
    pubOK,            \* history: ids published since the ledger last lost ids
    accepted,         \* history: ids of the items fetched in this run
    pending,          \* history: ids whose publish raised in an earlier run, not published since
    fmtIn, fmtOut,    \* input and output of the formatter
    callArgs,         \* arguments of the function called on its own
    callResult        \* what that call returned

vars == <<variant, run, env, pc, exc, seen_ids, acct, tweets, order, idx, new_posts_count, gist,
          loaded, effects, saves, lastOp, lastAttempt, succeeded, failed,
          everPublished, pubOK, accepted, pending, fmtIn, fmtOut, callArgs, callResult>>

memVars == <<seen_ids, acct, tweets, order, idx, new_posts_count>>
runHist == <<loaded, effects, saves, lastOp, lastAttempt, succeeded, failed>>
fmtVars == <<fmtIn, fmtOut>>
callVars == <<callArgs, callResult>>

NoArgs == [none |-> TRUE]

NoTweet == Tweet(0, <<>>, 0, <<>>, <<>>, None, None)

InitMain ==
    /\ variant \in {"plain", "img_quote"}
    /\ run = 1
    /\ env \in Envs
    /\ pc = "start"
    /\ exc = "none"
    /\ seen_ids = {}
    /\ acct = 0
    /\ tweets = <<>>
    /\ order = <<>>
    /\ idx = 1
    /\ new_posts_count = 0
    /\ gist = <<>>
    /\ loaded = {}
    /\ effects = {}
    /\ saves = 0
    /\ lastOp = Op("none", 0, NoCall)
    /\ lastAttempt = 0
    /\ succeeded = {}
    /\ failed = {}
    /\ everPublished = {}
    /\ pubOK = {}
    /\ accepted = {}
    /\ pending = {}

Init ==
    /\ InitMain
    /\ fmtIn = NoTweet
    /\ fmtOut = <<>>
    /\ callArgs = NoArgs
    /\ callResult = NoArgs

credentials_missing_both(e) == ~e.BSKY_HANDLE /\ ~e.BSKY_APP_PASSWORD

credentials_missing(e) == ~e.BSKY_HANDLE \/ ~e.BSKY_APP_PASSWORD

\* main(), lines 369-373: the credential precondition
CheckCredentials ==
    /\ pc = "start"
    /\ IF credentials_missing(env)
       THEN pc' = "fatal" /\ exc' = "RuntimeError"
       ELSE pc' = "load" /\ exc' = exc
    /\ UNCHANGED <<variant, run, env, gist, memVars, runHist, everPublished, pubOK,
                   accepted, pending, fmtVars, callVars>>

\* main(), lines 375-376
LoadState ==
    /\ pc = "load"
    /\ \E resp \in GistResponses(gist) :
         LET r == load_state(env, resp)
         IN /\ IF r.raised
               THEN pc' = "crashed" /\ exc' = "load_state"
               ELSE pc' = "login" /\ exc' = exc
            /\ seen_ids' = r.tweet_ids
            /\ loaded' = r.tweet_ids
            /\ pubOK' = IF r.raised \/ r.tweet_ids # ToSet(gist) THEN {} ELSE pubOK
    /\ effects' = effects \cup {"load"}
    /\ UNCHANGED <<variant, run, env, gist, acct, tweets, order, idx, new_posts_count,
                   saves, lastOp, lastAttempt, succeeded, failed, everPublished,
                   accepted, pending, fmtVars, callVars>>

\* main(), lines 381-385
Login ==
    /\ pc = "login"
    /\ \E ok \in BOOLEAN :
         IF ok
         THEN /\ pc' = "fetch" /\ exc' = exc
              /\ acct' = 1
              /\ pubOK' = pubOK
         ELSE /\ pc' = "crashed" /\ exc' = "login"
              /\ acct' = acct
              /\ pubOK' = {}
    /\ new_posts_count' = 0
    /\ effects' = effects \cup {"login"}
    /\ UNCHANGED <<variant, run, env, gist, seen_ids, tweets, order, idx,
                   loaded, saves, lastOp, lastAttempt, succeeded, failed, everPublished,
                   accepted, pending, fmtVars, callVars>>

forward(n) == [k \in 1..n |-> k]

\* reversed(tweets), as the positions of a list of n items
reversed(n) == [k \in 1..n |-> n + 1 - k]

\* the item the loop is at
LoopRunning == pc = "item" /\ idx <= Len(order)
Current == tweets[order[idx]]

no_dedup(tweet_id, ids) == FALSE

\* main(), line 395: the dedup check
already_seen(tweet_id, ids) == tweet_id \in ids

\* main(), lines 387-389: the next account's feed is fetched
Fetch ==
    /\ pc = "fetch"
    /\ \E resp \in FeedResponses :
         LET r == get_recent_tweets_rss(variant, TWITTER_USERNAMES[acct], TWEETS_PER_USER, resp)
         IN
         /\ IF r.raised
            THEN /\ pc' = "crashed" /\ exc' = "get_recent_tweets_rss"
                 /\ pubOK' = {}
                 /\ UNCHANGED <<tweets, order, idx, accepted>>
            ELSE /\ pc' = "item" /\ exc' = exc
                 /\ pubOK' = pubOK
                 /\ tweets' = r.tweets
                 /\ order' = reversed(Len(r.tweets))
                 /\ idx' = 1
                 /\ accepted' = accepted \cup {r.tweets[i].id : i \in 1..Len(r.tweets)}
         /\ effects' = effects \cup {"fetch"}
                          \cup (IF resp.status # "ok" THEN {"fetch_failed"} ELSE {})
         /\ lastOp' = Op(IF resp.status # "ok" THEN "fetch_failed" ELSE "fetch", 0, NoCall)
    /\ lastAttempt' = 0
    /\ UNCHANGED <<variant, run, env, gist, seen_ids, acct, new_posts_count,
                   loaded, saves, succeeded, failed, everPublished, pending, fmtVars, callVars>>

\* main(), lines 392-396: the dedup check finds the id in the ledger
SkipSeen ==
    /\ LoopRunning
    /\ already_seen(Current.id, seen_ids)
    /\ idx' = idx + 1
    /\ lastOp' = Op("skip", Current.id, NoCall)
    /\ UNCHANGED <<variant, run, env, pc, exc, gist, seen_ids, acct, tweets, order, new_posts_count,
                   loaded, effects, saves, lastAttempt, succeeded, failed,
                   everPublished, pubOK, accepted, pending, fmtVars, callVars>>

record_publish_reset(ids, tweet_id, raised) == IF raised THEN {} ELSE {tweet_id}

record_publish_always(ids, tweet_id, raised) == ids \cup {tweet_id}

record_publish_never(ids, tweet_id, raised) == ids

\* the ledger after a publish attempt for tweet_id (lines 399-405)
record_publish(ids, tweet_id, raised) == IF raised THEN ids ELSE ids \cup {tweet_id}

\* main(), lines 392-405: an unseen item is formatted and published
Publish ==
    /\ LoopRunning
    /\ ~already_seen(Current.id, seen_ids)
    /\ LET tweet == Current
           text == format_bsky_post(variant, tweet)
           n == Len(Prefix(tweet.media_urls, MaxImages))
       IN \E dl \in [1..n -> BOOLEAN], dest \in {"ok", "error"} :
            LET r == post_to_bluesky(variant, tweet, text, dl, dest)
            IN /\ seen_ids' = record_publish(seen_ids, tweet.id, r.raised)
               /\ new_posts_count' = IF r.raised THEN new_posts_count ELSE new_posts_count + 1
               /\ lastOp' = Op(IF r.raised THEN "publish_failed" ELSE "published", tweet.id, r.call)
               /\ succeeded' = IF r.raised THEN succeeded ELSE succeeded \cup {tweet.id}
               /\ failed' = IF r.raised THEN failed \cup {tweet.id} ELSE failed
               /\ everPublished' = IF r.raised THEN everPublished
                                   ELSE everPublished \cup {tweet.id}
               /\ pubOK' = IF r.raised THEN pubOK ELSE pubOK \cup {tweet.id}
               /\ effects' = effects \cup {"publish"}
                                \cup (IF r.downloads # <<>> THEN {"download"} ELSE {})
    /\ lastAttempt' = order[idx]
    /\ idx' = idx + 1
    /\ UNCHANGED <<variant, run, env, pc, exc, gist, acct, tweets, order, loaded, saves,
                   accepted, pending, fmtVars, callVars>>

\* main(), lines 387 and 392: the batch is exhausted, on to the next account
\* or to the persist step
EndAccount ==
    /\ pc = "item"
    /\ idx > Len(order)
    /\ acct' = acct + 1
    /\ pc' = IF acct = NumAccounts THEN "persist" ELSE "fetch"
    /\ UNCHANGED <<variant, run, env, exc, gist, seen_ids, tweets, order, idx, new_posts_count,
                   runHist, everPublished, pubOK, accepted, pending, fmtVars, callVars>>

\* main(), lines 407-409
SaveState ==
    /\ pc = "persist"
    /\ \E patch \in {"ok", "error"} :
         /\ gist' = save_state(env, seen_ids, gist, patch)
         /\ pubOK' = IF gist' = SortedList(seen_ids) THEN pubOK ELSE {}
    /\ saves' = saves + 1
    /\ effects' = effects \cup {"save"}
    /\ pc' = "done"
    /\ UNCHANGED <<variant, run, env, exc, memVars, loaded, lastOp, lastAttempt, succeeded, failed,
                   everPublished, accepted, pending, fmtVars, callVars>>

Ended == pc \in {"done", "fatal", "crashed"}

\* the scheduler starts the next run in a fresh process
NextRun ==
    /\ Ended
    /\ run < MaxRuns
    /\ run' = run + 1
    /\ env' \in Envs
    /\ pc' = "start"
    /\ exc' = "none"
    /\ seen_ids' = {}
    /\ acct' = 0
    /\ tweets' = <<>>
    /\ order' = <<>>
    /\ idx' = 1
    /\ new_posts_count' = 0
    /\ loaded' = {}
    /\ effects' = {}
    /\ saves' = 0
    /\ lastOp' = Op("none", 0, NoCall)
    /\ lastAttempt' = 0
    /\ succeeded' = {}
    /\ failed' = {}
    /\ accepted' = {}
    /\ pending' = (pending \cup failed) \ succeeded
    /\ UNCHANGED <<variant, gist, everPublished, pubOK, fmtVars, callVars>>

Next ==
    \/ CheckCredentials
    \/ LoadState
    \/ Login
    \/ Fetch
    \/ SkipSeen
    \/ Publish
    \/ EndAccount
    \/ SaveState
    \/ NextRun

Spec == Init /\ [][Next]_vars

\* ------------------------------------------------------------------ claims
DedupHit == LoopRunning /\ Current.id \in seen_ids
PublishAttempt == LoopRunning /\ idx' = idx + 1 /\ lastOp'.op \in {"published", "publish_failed"}
PublishReturned == LoopRunning /\ idx' = idx + 1 /\ lastOp'.op = "published"
LedgerLoaded == pc \in {"login", "fetch", "item", "persist", "done"}
CredentialsPresent == env.BSKY_HANDLE /\ env.BSKY_APP_PASSWORD

\* C1: an item whose id is in the in-memory ledger at its dedup check is not
\* passed to the publisher, the skip leaves the ledger unchanged, and until
\* the end of the run the ledger (as the list handed to persistence) holds
\* the id exactly once.
C1_DedupSkip ==
    [][/\ DedupHit =>
            /\ lastOp'.op = "skip"
            /\ lastOp'.id = Current.id
            /\ lastOp'.call = NoCall
            /\ seen_ids' = seen_ids
            /\ everPublished' = everPublished
            /\ effects' = effects
       /\ pc \in {"login", "fetch", "item", "persist"} =>
            \A i \in seen_ids : Count(SortedList(seen_ids'), i) = 1]_vars

C1_Witness ==
    /\ lastOp.op = "skip"
    /\ lastOp.id \in loaded
    /\ pc = "done"
    /\ Count(gist, lastOp.id) = 1

\* C2: once the ledger is loaded, the ids added to it during the run are
\* exactly the ids whose publish attempt returned without raising; an id
\* whose publish only raised is not added, and a publish that returned has
\* its id in the ledger in the very next state.
C2_AddedIffPublished ==
    LedgerLoaded =>
        /\ seen_ids \ loaded = succeeded
        /\ (failed \ succeeded) \cap seen_ids = {}
        /\ lastOp.op = "published" => lastOp.id \in seen_ids
        /\ new_posts_count = Cardinality(succeeded)

C2_Witness ==
    /\ pc = "done"
    /\ succeeded # {}
    /\ failed \ succeeded # {}

\* C3 (as stated): no id is successfully published more than once, whatever
\* publish, fetch, load and save failures the runs meet.
C3_NeverPublishedTwice == [][PublishReturned => Current.id \notin everPublished]_vars

\* C3 (amended): an id is not published a second time as long as, from its
\* first publish on, every run got the stored ledger from load_state and
\* ended with a save that stored the in-memory ledger.
C3_NoRepublishWhileLedgerIntact == [][PublishReturned => Current.id \notin pubOK]_vars

C3_Witness ==
    /\ run > 1
    /\ lastOp.op = "skip"
    /\ lastOp.id \in pubOK
    /\ lastOp.id \notin succeeded
    /\ failed # {}

\* C4: after a publish call raised, the run is not aborted: it goes on
\* through the later items and accounts and ends at the persist step.
C4_PublishFailureNeverAborts ==
    (failed # {} /\ Ended) => (pc = "done" /\ saves = 1)

\* C5: a run that passed the credential precondition persists the ledger
\* exactly once, after the last item of the last account and never between
\* accounts or items.
C5_PersistExactlyOnce ==
    /\ pc \in {"load", "login", "fetch", "item", "persist"} => saves = 0
    /\ (Ended /\ pc # "fatal") => saves = 1

\* C6: with the handle or the app password missing, main() ends with the
\* fatal error and the run has no side effect: no load, login, fetch,
\* download, publish or save.
C6_MissingCredentialsNoSideEffect ==
    /\ ~CredentialsPresent => (pc \in {"start", "fatal"} /\ effects = {} /\ saves = 0)
    /\ pc = "fatal" => (~CredentialsPresent /\ exc = "RuntimeError")

C6_Witness ==
    /\ pc = "fatal"
    /\ run > 1
    /\ gist # <<>>
    /\ env.BSKY_HANDLE
    /\ ~env.BSKY_APP_PASSWORD

\* C7: a run ends abnormally only when a credential is missing; with both
\* present it reaches DONE whatever fails on the way.
C7_OnlyCredentialsAreFatal ==
    /\ pc \in {"fatal", "crashed"} => ~CredentialsPresent
    /\ (Ended /\ CredentialsPresent) => pc = "done"

\* C8: load_state never raises to main(): whatever the gist API answers, it
\* returns a ledger.
C8_LoadNeverRaises == exc # "load_state"

\* C9: within one account's batch the publish attempts go from the end of
\* the fetch result to its start (oldest first), and the first attempt is
\* for the last item of the (at most TWEETS_PER_USER) fetched ones whose id
\* is not in the ledger.
C9_OldestFirst ==
    [][PublishAttempt =>
         /\ Len(tweets) <= TWEETS_PER_USER
         /\ lastOp'.id = tweets[lastAttempt'].id
         /\ lastAttempt # 0 => lastAttempt' < lastAttempt
         /\ lastAttempt = 0 =>
              /\ \A j \in (lastAttempt' + 1)..Len(tweets) : tweets[j].id \in seen_ids
              /\ tweets[lastAttempt'].id \notin seen_ids]_vars

C9_Witness ==
    /\ acct = 1
    /\ Len(tweets) = TWEETS_PER_USER
    /\ new_posts_count >= 2
    /\ failed # {}
    /\ lastAttempt = 1


\* C12: when the feed retrieval of an account fails, get_recent_tweets_rss
\* returns the empty list: the step publishes nothing and leaves the ledger
\* alone, and the next step of main() moves on to the next account (or to
\* the persist step after the last one).
C12_FetchFailureSkipsAccount ==
    [][/\ (pc = "fetch" /\ lastOp'.op = "fetch_failed") =>
            /\ pc' = "item"
            /\ tweets' = <<>>
            /\ seen_ids' = seen_ids
            /\ everPublished' = everPublished
            /\ new_posts_count' = new_posts_count
            /\ "publish" \in effects' <=> "publish" \in effects
       /\ (pc = "item" /\ lastOp.op = "fetch_failed") =>
            /\ acct' = acct + 1
            /\ pc' = (IF acct < NumAccounts THEN "fetch" ELSE "persist")
            /\ seen_ids' = seen_ids
            /\ lastOp' = lastOp
            /\ effects' = effects]_vars

C12_Witness ==
    /\ acct = 2
    /\ "fetch_failed" \in effects
    /\ lastOp.op = "published"
    /\ loaded # {}

\* C13: a run that ends with no fetch and no publish having failed, from
\* the loaded ledger L, made one publish call per distinct fetched id outside
\* L and ends with the ledger L united with the fetched ids; when every
\* fetched id is in L it published nothing and the ledger is L.
C13_PublishesExactlyTheNewIds ==
    (pc = "done" /\ "fetch_failed" \notin effects /\ failed = {}) =>
        /\ new_posts_count = Cardinality(accepted \ loaded)
        /\ succeeded = accepted \ loaded
        /\ seen_ids = loaded \cup accepted
        /\ accepted \subseteq loaded => (new_posts_count = 0 /\ seen_ids = loaded)

C13_Witness ==
    /\ pc = "done"
    /\ "fetch_failed" \notin effects
    /\ failed = {}
    /\ loaded # {}
    /\ accepted \ loaded # {}
    /\ accepted \cap loaded # {}
    /\ Len(tweets) = TWEETS_PER_USER

\* C16 (as stated): an item whose publish attempt failed is not marked seen
\* and is attempted again in the next run, and in every later run while the
\* destination keeps rejecting it.
C16_RetriedInEveryLaterRun ==
    /\ failed \cap seen_ids \subseteq (loaded \cup succeeded)
    /\ (Ended /\ run > 1) => pending \subseteq (succeeded \cup failed)

\* C16 (amended): a failed publish attempt leaves the ledger as it was,
\* without the item's id; and in a later run every account batch that holds
\* the item again, with its id not in the loaded ledger, ends with a new
\* publish attempt for it.
C16_RetriedWhenFetchedAgain ==
    /\ [][(PublishAttempt /\ lastOp'.op = "publish_failed") =>
             (seen_ids' = seen_ids /\ lastOp'.id \notin seen_ids')]_vars
    /\ [](pc = "item" /\ idx > Len(order) =>
             \A i \in 1..Len(tweets) :
                 (tweets[i].id \in pending /\ tweets[i].id \notin loaded) =>
                     tweets[i].id \in (succeeded \cup failed))

C16_Witness ==
    /\ run > 1
    /\ pc = "item"
    /\ idx > Len(order)
    /\ \E i \in 1..Len(tweets) :
          /\ tweets[i].id \in pending
          /\ tweets[i].id \in failed
          /\ tweets[i].id \notin seen_ids

\* C17: in every step of main() after the ledger is loaded the in-memory
\* ledger keeps all its ids, and every id loaded is in the ledger handed to
\* save_state.
C17_LedgerOnlyGrows ==
    /\ [][(pc \in {"login", "fetch", "item", "persist"}) => (seen_ids \subseteq seen_ids')]_vars
    /\ [](pc \in {"login", "fetch", "item", "persist"} => loaded \subseteq seen_ids)

C17_Witness ==
    /\ pc = "persist"
    /\ loaded # {}
    /\ succeeded # {}
    /\ failed # {}
    /\ loaded \subseteq seen_ids
    /\ seen_ids # loaded

\* C18: the id set stored in the gist never loses an id, whatever loads and
\* saves fail.
C18_StoredLedgerNeverShrinks == [][ToSet(gist) \subseteq ToSet(gist')]_vars

\* ------------------------------------------------- the formatter on its own
FmtLens == {0, 1, MAX_BSKY_CHARS + 100}
           \cup ((MAX_BSKY_CHARS - reserved - FmtSlack)..(MAX_BSKY_CHARS - reserved + FmtSlack))
           \cup ((MAX_BSKY_CHARS - 10 - FmtSlack)..(MAX_BSKY_CHARS - 10 + FmtSlack))

FmtContents == {Rep("a", n) \o Rep(" ", k) \o Rep("b", m) :
                  n \in FmtLens, k \in 0..MaxPad, m \in {0, 1}}

FmtTweets == {Tweet(1, c, 1, TWITTER_USERNAMES[u], <<>>, qa, qt) :
                c \in FmtContents, u \in 1..NumAccounts,
                qa \in {None, Some(<<"b">>)}, qt \in {None, Some(Hi)}}

InitFormat ==
    /\ variant \in {"plain", "img_quote"}
    /\ run = 1
    /\ env = [BSKY_HANDLE |-> TRUE, BSKY_APP_PASSWORD |-> TRUE,
              GIST_ID |-> TRUE, GIST_TOKEN |-> TRUE]
    /\ pc = "format"
    /\ exc = "none"
    /\ seen_ids = {}
    /\ acct = 0
    /\ tweets = <<>>
    /\ order = <<>>
    /\ idx = 1
    /\ new_posts_count = 0
    /\ gist = <<>>
    /\ loaded = {}
    /\ effects = {}
    /\ saves = 0
    /\ lastOp = Op("none", 0, NoCall)
    /\ lastAttempt = 0
    /\ succeeded = {}
    /\ failed = {}
    /\ everPublished = {}
    /\ pubOK = {}
    /\ accepted = {}
    /\ pending = {}
    /\ fmtIn \in FmtTweets
    /\ fmtOut = <<>>
    /\ callArgs = NoArgs
    /\ callResult = NoArgs

\* text = format_bsky_post(tweet)
FormatPost ==
    /\ pc = "format"
    /\ fmtOut' = format_bsky_post(variant, fmtIn)
    /\ pc' = "formatted"
    /\ UNCHANGED <<variant, run, env, exc, gist, memVars, runHist, everPublished, pubOK,
                   accepted, pending, fmtIn, callVars>>

NextFormat == FormatPost

SpecFormat == InitFormat /\ [][NextFormat]_vars

\* C10: the string format_bsky_post returns is never longer than
\* MAX_BSKY_CHARS, the ellipsis included.
C10_WithinBudget == pc = "formatted" => Len(fmtOut) <= MAX_BSKY_CHARS

\* C20: a composed text (attribution, main text and quote block as rendered)
\* longer than MAX_BSKY_CHARS comes back as its first MAX_BSKY_CHARS - 1
\* characters followed by one ellipsis; a composed text within the budget
\* comes back unchanged.
C20_CutAtBudgetMinusOne ==
    pc = "formatted" =>
        LET composed == IF variant = "img_quote" THEN base_text_img_quote(fmtIn)
                        ELSE Attribution(fmtIn.username) \o fmtIn.content
        IN fmtOut = (IF Len(composed) > MAX_BSKY_CHARS
                     THEN Prefix(composed, MAX_BSKY_CHARS - 1) \o <<Ellipsis>>
                     ELSE composed)

\* C21: for an item whose composed text fits the budget, format_bsky_post
\* returns "@" + account + ":" + two newlines + main text, followed, exactly
\* when the quoted author and the quoted text are both present (img_quote
\* script), by two newlines, a line of two em dashes, the line
\* "Quoted @" + author + ":" and the quoted text, and nothing else.
C21_ExactLayout ==
    pc = "formatted" =>
        LET head == <<"@">> \o fmtIn.username \o <<":", "\n", "\n">> \o fmtIn.content
            quoted == /\ variant = "img_quote"
                      /\ fmtIn.quote_author.some /\ fmtIn.quote_author.val # <<>>
                      /\ fmtIn.quote_text.some /\ fmtIn.quote_text.val # <<>>
            expected == IF quoted
                        THEN head \o <<"\n", "\n", EmDash, EmDash, "\n",
                                       "Q", "u", "o", "t", "e", "d", " ", "@">>
                                  \o fmtIn.quote_author.val \o <<":", "\n">>
                                  \o fmtIn.quote_text.val
                        ELSE head
        IN Len(expected) + 4 <= MAX_BSKY_CHARS => fmtOut = expected

\* --------------------------------------------------- the fetcher on its own
\* everything of main() at rest while one function is called on its own
MainAtRest ==
    /\ run = 1
    /\ env = [BSKY_HANDLE |-> TRUE, BSKY_APP_PASSWORD |-> TRUE,
              GIST_ID |-> TRUE, GIST_TOKEN |-> TRUE]
    /\ exc = "none"
    /\ seen_ids = {}
    /\ acct = 0
    /\ tweets = <<>>
    /\ order = <<>>
    /\ idx = 1
    /\ new_posts_count = 0
    /\ gist = <<>>
    /\ loaded = {}
    /\ effects = {}
    /\ saves = 0
    /\ lastOp = Op("none", 0, NoCall)
    /\ lastAttempt = 0
    /\ succeeded = {}
    /\ failed = {}
    /\ everPublished = {}
    /\ pubOK = {}
    /\ accepted = {}
    /\ pending = {}
    /\ fmtIn = NoTweet
    /\ fmtOut = <<>>

mainVars == <<variant, run, env, exc, gist, memVars, runHist, everPublished, pubOK,
              accepted, pending>>

\* The k-th entry has link k and id k, or only the link when k is even; one
\* more entry has no link at all.
FetchTitles ==
    <<Hi,
      <<"R", "T", " ", "@", "b">>,
      <<"r", "t", " ", "x">>,
      <<" ", "R", "t", " ", "@", "b", " ">>,
      <<"R", "T">>,
      <<"R", "T", " ">>,
      <<"r", "t", "x">>,
      <<>>,
      <<>>,
      <<>>,
      <<"\n", "r", "T", " ", "h", "i">> >>

FetchSummaries ==
    <<<<P(Hi)>>, <<P(Hi)>>, <<>>, <<>>, <<P(Hi), Img(1)>>, <<>>, <<>>,
      <<>>, <<P(<<" ">>)>>, <<P(<<"x">>)>>, <<>> >>

FetchEntry(k) == Entry(IF k % 2 = 0 THEN NoId ELSE k, k, FetchTitles[k], FetchSummaries[k])

\* an entry that is kept and has neither id nor link
FetchNoLink == Entry(NoId, NoId, Hi, <<P(Hi)>>)

FetchEntries == {FetchEntry(k) : k \in 1..Len(FetchTitles)} \cup {FetchNoLink}

FetchCalls ==
    [limit : 1..MaxLimit,
     resp : [status : {"ok"}, entries : UNION {[1..n -> FetchEntries] : n \in 0..MaxFetchFeed}]]

InitFetch ==
    /\ MainAtRest
    /\ variant \in {"plain", "img_quote"}
    /\ pc = "fetch_call"
    /\ callArgs \in FetchCalls
    /\ callResult = NoArgs

\* tweets = get_recent_tweets_rss(username, limit)
FetchCall ==
    /\ pc = "fetch_call"
    /\ callResult' = get_recent_tweets_rss(variant, TWITTER_USERNAMES[1],
                                           callArgs.limit, callArgs.resp)
    /\ pc' = "fetch_returned"
    /\ UNCHANGED <<mainVars, fmtVars, callArgs>>

NextFetch == FetchCall

SpecFetch == InitFetch /\ [][NextFetch]_vars

\* the title, trimmed, starts with "rt " in any letter case ("rt @" is a
\* case of it)
C11_IsRepost(title) ==
    \E a \in 1..Len(title), b \in 1..Len(title) :
        /\ \A i \in 1..(a - 1) : title[i] \in Whitespace
        /\ \A i \in (b + 1)..Len(title) : title[i] \in Whitespace
        /\ title[a] \notin Whitespace
        /\ title[b] \notin Whitespace
        /\ b >= a + 3
        /\ title[a] \in {"r", "R"}
        /\ title[a + 1] \in {"t", "T"}
        /\ title[a + 2] = " "

C11_TextEmpty(v, entry) ==
    /\ entry.title = <<>>
    /\ IF v = "plain" THEN entry.summary = <<>>
       ELSE \A i \in 1..Len(entry.summary) :
              entry.summary[i].tag = "p" =>
                 \A j \in 1..Len(entry.summary[i].text) :
                    entry.summary[i].text[j] \in Whitespace

C11_Kept(entry) == ~C11_IsRepost(entry.title) /\ ~C11_TextEmpty(variant, entry)

\* C11: for every feed and limit >= 1, get_recent_tweets_rss returns the
\* first min(limit, k) of the k entries that are neither reposts nor
\* text-empty, in feed order; no repost is in the output and the output has
\* at most limit items.
C11_FirstLimitKept ==
    pc = "fetch_returned" =>
        LET kept == SelectSeq(callArgs.resp.entries, C11_Kept)
            n == IF callArgs.limit < Len(kept) THEN callArgs.limit ELSE Len(kept)
            out == callResult.tweets
        IN /\ ~callResult.raised
           /\ Len(out) = n
           /\ Len(out) <= callArgs.limit
           /\ \A i \in 1..n :
                /\ out[i].url = kept[i].link
                /\ out[i].id = (IF kept[i].id # NoId THEN kept[i].id ELSE kept[i].link)
                /\ out[i].content # <<>>
                /\ ~C11_IsRepost(FetchTitles[out[i].url])

C11_Witness ==
    /\ pc = "fetch_returned"
    /\ Len(callResult.tweets) = callArgs.limit
    /\ Len(SelectSeq(callArgs.resp.entries, C11_Kept)) > callArgs.limit
    /\ C11_IsRepost(callArgs.resp.entries[1].title)

\* ---------------------------------------------------- the parser on its own
ParseLeaves == {Leaf("b", <<"B", " ", "@", "b", "o">>, 0),
                Leaf("b", <<"B", "o">>, 0),
                Leaf("p", <<"q">>, 0),
                Leaf("p", <<" ">>, 0)}

ParseNodes == {P(<<"h", "i", " ">>), P(<<"y", "o">>), P(<<" ">>)}
              \cup {Blockquote(k) : k \in UNION {[1..n -> ParseLeaves] : n \in 0..MaxKids}}

ParseEntries ==
    {Entry(1, 1, t, h) : t \in {<<>>, <<"T">>},
                         h \in UNION {[1..n -> ParseNodes] : n \in 0..MaxNodes}}

InitParse ==
    /\ MainAtRest
    /\ variant = "img_quote"
    /\ pc = "parse_call"
    /\ callArgs \in ParseEntries
    /\ callResult = NoArgs

\* parsed = parse_entry_text_and_quote(entry)
ParseCall ==
    /\ pc = "parse_call"
    /\ callResult' = parse_entry_text_and_quote(callArgs)
    /\ pc' = "parse_returned"
    /\ UNCHANGED <<mainVars, fmtVars, callArgs>>

NextParse == ParseCall

SpecParse == InitParse /\ [][NextParse]_vars

\* C14: in every parsed item the quoted author and the quoted text are both
\* present or both absent.
C14_QuotePairedOrAbsent ==
    pc = "parse_returned" =>
        (callResult.quote_author.some <=> callResult.quote_text.some)

C19_NonEmpty(t) == t # <<>>
C19_HasP(el) == el.tag = "blockquote" /\ SelectSeq(el.kids, IsP) # <<>>

\* trimmed non-empty texts of the paragraphs outside every quote container
C19_Outside(entry) == SelectSeq(Texts(SelectSeq(entry.summary, IsP)), C19_NonEmpty)

\* trimmed texts of the paragraphs inside the first quote container
C19_Inside(entry) ==
    LET quotes == SelectSeq(entry.summary, IsBlockquote)
    IN IF quotes = <<>> THEN <<>> ELSE Texts(SelectSeq(quotes[1].kids, IsP))

C19_BothSides(entry) ==
    /\ SelectSeq(entry.summary, IsP) # <<>>
    /\ SelectSeq(entry.summary, C19_HasP) # <<>>

\* C19 (as stated): for a body with paragraphs inside and outside a quote
\* container, main_text is the newline-join of the outside paragraphs only
\* and quoted_text the space-join of the inside paragraphs only.
C19_MainOutsideQuoteInside ==
    (pc = "parse_returned" /\ C19_BothSides(callArgs)) =>
        /\ callResult.main_text = Join(<<"\n">>, C19_Outside(callArgs))
        /\ callResult.quote_text.val = Strip(Join(<<" ">>, C19_Inside(callArgs)))

\* C19 (amended): the same, except that main_text is the entry's title when
\* every paragraph outside the quote containers is empty; quoted_text is
\* taken from the first quote container and is absent when it is empty.
C19_MainOutsideOrTitle ==
    (pc = "parse_returned" /\ C19_BothSides(callArgs)) =>
        /\ callResult.main_text =
              (IF C19_Outside(callArgs) = <<>> THEN callArgs.title
               ELSE Join(<<"\n">>, C19_Outside(callArgs)))
        /\ callResult.quote_text.val = Strip(Join(<<" ">>, C19_Inside(callArgs)))
        /\ callResult.quote_text.some <=> callResult.quote_text.val # <<>>

C19_Witness ==
    /\ pc = "parse_returned"
    /\ C19_BothSides(callArgs)
    /\ Len(C19_Outside(callArgs)) = 2
    /\ callResult.quote_text.some
    /\ callArgs.title # <<>>

\* ------------------------------------------------- the publisher on its own
PostTweets ==
    {Tweet(1, Hi, 1, TWITTER_USERNAMES[1], m, None, None) :
        m \in UNION {[1..n -> {MediaUrl(1), MediaUrl(2)}] : n \in 0..MaxMedia}}

PostCalls ==
    [tweet : PostTweets, dl : [1..MaxMedia -> BOOLEAN], dest : {"ok", "error"}]

InitPost ==
    /\ MainAtRest
    /\ variant = "img_quote"
    /\ pc = "post_call"
    /\ callArgs \in PostCalls
    /\ callResult = NoArgs

\* post_to_bluesky(client, tweet, format_bsky_post(tweet))
PostCall ==
    /\ pc = "post_call"
    /\ callResult' = post_to_bluesky(variant, callArgs.tweet,
                                     format_bsky_post(variant, callArgs.tweet),
                                     callArgs.dl, callArgs.dest)
    /\ pc' = "post_returned"
    /\ UNCHANGED <<mainVars, fmtVars, callArgs>>

NextPost == PostCall

SpecPost == InitPost /\ [][NextPost]_vars

RECURSIVE C15_Downloaded(_, _, _)
C15_Downloaded(urls, dl, i) ==
    IF i > Len(urls) \/ i > 4 THEN <<>>
    ELSE (IF dl[i] THEN <<urls[i]>> ELSE <<>>) \o C15_Downloaded(urls, dl, i + 1)

\* C15: post_to_bluesky requests only the first 4 media URLs, goes on after
\* a failed download, and makes one destination call: send_post when the
\* item has no media URL or no download succeeded, otherwise send_images
\* with exactly the downloaded images in URL order and one alt text each.
C15_OneCallWithDownloadedImages ==
    pc = "post_returned" =>
        LET urls == callArgs.tweet.media_urls
            got == C15_Downloaded(urls, callArgs.dl, 1)
            call == callResult.call
        IN /\ callResult.downloads = SubSeq(urls, 1, IF Len(urls) < 4 THEN Len(urls) ELSE 4)
           /\ callResult.raised <=> callArgs.dest # "ok"
           /\ call.text = format_bsky_post(variant, callArgs.tweet)
           /\ call.images = got
           /\ Len(call.image_alts) = Len(got)
           /\ \A k \in 1..Len(got) : call.image_alts[k] = AltText(callArgs.tweet.username)
           /\ call.method = (IF urls = <<>> \/ got = <<>> THEN "send_post" ELSE "send_images")

C15_Witness ==
    /\ pc = "post_returned"
    /\ Len(callArgs.tweet.media_urls) = 5
    /\ ~callArgs.dl[1] /\ callArgs.dl[2] /\ ~callArgs.dl[3] /\ callArgs.dl[4] /\ callArgs.dl[5]
    /\ callArgs.tweet.media_urls[2] # callArgs.tweet.media_urls[4]
    /\ callResult.call.method = "send_images"
    /\ Len(callResult.call.images) = 2
    /\ ~callResult.raised
====
